---- MODULE Spec2Model ----
(***************************************************************************)
(* A model of catalyst (src/src/main.rs): the Tuist-graph to Bazel-rules   *)
(* generator and its build / run pipeline.                                 *)
(*                                                                         *)
(* Strings that the program lower-cases, searches or concatenates are      *)
(* sequences of one-character strings.  A path is a sequence of            *)
(* components, a component the sequence of the pieces its name splits into *)
(* at the dots ("A.swift" is <<"A", "swift">>).  An optional value is a    *)
(* sequence of length 0 or 1.                                              *)
(***************************************************************************)
EXTENDS Naturals, Sequences, FiniteSets, TLC

VARIABLES
    mode,         \* cli.command: "build" or "run"
    target_hint,  \* Run { target }: Option of a string
    pc,           \* the position of main
    graph,        \* Option: the graph build_project decoded
    graph2,       \* Option: the graph main decoded for find_app_target
    fs,           \* the files written so far: path -> content
    steps,        \* the pipeline steps started, in order
    exits,        \* the subprocesses run so far, each with its exit status
    outcome,      \* "running", "success", or the kind of the error
    app,          \* Option: what find_app_target returned
    project,      \* synthesis on its own: the project record (a JSON object)
    runs,         \* synthesis on its own: the rule files generated from it
    results       \* resolution on its own: what find_app_target returned

vars == <<mode, target_hint, pc, graph, graph2, fs, steps, exits, outcome,
          app, project, runs, results>>

-----------------------------------------------------------------------------
(* Bounds of the model *)

MaxTargets == 2
MaxDeps == 1
MaxItems == 2

-----------------------------------------------------------------------------
(* Strings *)

None == <<>>
Some(x) == <<x>>

\* char::to_lowercase on the model's alphabet
LowerChar(c) ==
    CASE c = "A" -> "a"
      [] c = "L" -> "l"
      [] c = "P" -> "p"
      [] c = "T" -> "t"
      [] OTHER -> c

\* str::to_lowercase
to_lowercase(s) == [i \in 1..Len(s) |-> LowerChar(s[i])]

\* str::replace(from, ""): every non-overlapping match, left to right
RECURSIVE replace(_, _)
replace(s, from) ==
    IF Len(s) < Len(from) \/ Len(from) = 0 THEN s
    ELSE IF SubSeq(s, 1, Len(from)) = from
         THEN replace(SubSeq(s, Len(from) + 1, Len(s)), from)
         ELSE <<Head(s)>> \o replace(Tail(s), from)

Tests == <<"T", "e", "s", "t", "s">>
LibSuffix == <<"_", "l", "i", "b">>

App == <<"A", "p", "p">>
app_lc == <<"a", "p", "p">>
AppTests == App \o Tests
TestsApp == Tests \o App
Lib == <<"L", "i", "b">>

-----------------------------------------------------------------------------
(* Paths *)

Root == <<"/">>
Join(dir, component) == Append(dir, component)

\* Path::extension: the piece after the last dot of the final component;
\* none without a dot, or when the only dot starts the name
extension(path) ==
    IF Len(path) = 0 THEN None
    ELSE LET file_name == path[Len(path)]
         IN  IF file_name = Root \/ Len(file_name) < 2 THEN None
             ELSE IF Len(file_name) = 2 /\ file_name[1] = "" THEN None
             ELSE Some(file_name[Len(file_name)])

\* Path::strip_prefix: Ok(the rest) when base is a prefix, component by
\* component, Err otherwise (None)
strip_prefix(path, base) ==
    IF Len(base) <= Len(path) /\ SubSeq(path, 1, Len(base)) = base
    THEN Some(SubSeq(path, Len(base) + 1, Len(path)))
    ELSE None

-----------------------------------------------------------------------------
(* The graph: TuistTarget, TuistDependency, BuildableFolder, ResolvedFile *)

ProjPath == <<Root, <<"proj">>>>
ModPath == <<Root, <<"proj">>, <<"Mod">>>>
ProjectDir == ProjPath
CacheDir == <<Root, <<"cache">>, <<"catalyst">>>>

FileA == <<Root, <<"proj">>, <<"Sources">>, <<"A", "swift">>>>
FileB == <<Root, <<"other">>, <<"B", "swift">>>>
FileX == <<Root, <<"proj">>, <<"Assets", "xcassets">>>>
FileR == <<Root, <<"proj">>, <<"README">>>>
FileS == <<Root, <<"other">>, <<"Main", "storyboard">>>>
FileH == <<Root, <<"proj">>, <<"", "swift">>>>

Folder(files) ==
    [path |-> Join(ProjPath, <<"Sources">>),
     resolved_files |-> [i \in 1..Len(files) |-> [path |-> files[i]]]]

FolderChoices == {<<>>, <<Folder(<<FileA, FileB, FileX, FileR, FileS, FileH>>)>>}

Products == {"app", "unit_tests", "framework"}
BundleIds == {"com.x.app", "com.x.other"}
Names == {App, app_lc, AppTests, TestsApp}
DepNames == {App}

Dependency(t) == [target |-> t]
TargetReference(n) == [name |-> n, status |-> "linked"]
DepChoices ==
    {Dependency(None)} \cup {Dependency(Some(TargetReference(n))) : n \in DepNames}
DepSeqs == UNION {[1..n -> DepChoices] : n \in 0..MaxDeps}

TuistTarget(n, p, b, f, d) ==
    [name |-> n, product |-> p, bundle_id |-> b, buildable_folders |-> f,
     dependencies |-> d]

Targets ==
    {TuistTarget(n, p, b, f, d) :
        n \in Names, p \in Products, b \in BundleIds, f \in FolderChoices,
        d \in DepSeqs}

\* the keys of a targets map of n entries
KeySeq == <<App, AppTests, Lib, app_lc>>
Keys(n) == {KeySeq[i] : i \in 1..n}

\* a project object of the graph JSON that decodes as a TuistProject
ProjectJson(n, p, t) == [name |-> n, path |-> p, targets |-> t]

\* serde_json::from_value::<TuistProject>: targets becomes a HashMap, whose
\* iteration order is fixed by the map's own random hash seed; order is the
\* order in which this map iterates
Orders(S) ==
    {o \in [1..Cardinality(S) -> S] : \A i, j \in DOMAIN o : o[i] = o[j] => i = j}
TuistProject(json) ==
    {[name |-> json.name, path |-> json.path, targets |-> json.targets,
      order |-> o] : o \in Orders(DOMAIN json.targets)}

-----------------------------------------------------------------------------
(* generate_build_file: the rule file of one project *)

\* a rule block of the BUILD file; an attribute the block does not carry is
\* None, an empty list or FALSE
Block(rule, name) ==
    [rule |-> rule, name |-> name, srcs |-> None, module_name |-> None,
     testonly |-> FALSE, deps |-> <<>>, visibility |-> <<>>,
     bundle_id |-> None, families |-> <<>>, infoplists |-> <<>>,
     minimum_os_version |-> None, test_host |-> None]

Load(file, symbols) ==
    [Block("load", file) EXCEPT !.deps = symbols]

Preamble ==
    <<Load(<<"@build_bazel_rules_apple//apple:ios.bzl">>,
           <<<<"ios_application">>, <<"ios_unit_test">>>>),
      Load(<<"@build_bazel_rules_swift//swift:swift.bzl">>,
           <<<<"swift_library">>>>)>>

RECURSIVE AllFiles(_)
AllFiles(folders) ==
    IF folders = <<>> THEN <<>>
    ELSE Head(folders).resolved_files \o AllFiles(Tail(folders))

\* a variant of SourceEntry that keeps a file outside the project path, with
\* its whole path
SourceEntry_KeepsOutOfTree(file, project_path) ==
    IF extension(file.path) = Some("swift")
    THEN (IF strip_prefix(file.path, project_path) = None
          THEN Some(file.path)
          ELSE strip_prefix(file.path, project_path))
    ELSE None

\* the entries one resolved file adds to source_files and resource_files
SourceEntry(file, project_path) ==
    IF extension(file.path) = Some("swift")
    THEN strip_prefix(file.path, project_path)
    ELSE None

ResourceEntry(file, project_path) ==
    IF extension(file.path) \in {Some("xcassets"), Some("storyboard"), Some("xib")}
    THEN strip_prefix(file.path, project_path)
    ELSE None

RECURSIVE source_files(_, _)
source_files(files, project_path) ==
    IF files = <<>> THEN <<>>
    ELSE SourceEntry(Head(files), project_path)
            \o source_files(Tail(files), project_path)

RECURSIVE resource_files(_, _)
resource_files(files, project_path) ==
    IF files = <<>> THEN <<>>
    ELSE ResourceEntry(Head(files), project_path)
            \o resource_files(Tail(files), project_path)

\* the two vectors of every target when its folders have been read
Classified(p) ==
    [k \in DOMAIN p.targets |->
        LET files == AllFiles(p.targets[k].buildable_folders)
        IN  [source_files |-> source_files(files, p.path),
             resource_files |-> resource_files(files, p.path)]]

\* format!(":{}", ...)
Ref(name) == <<":">> \o name

\* a variant of deps that does not lower-case the referenced name
RECURSIVE deps_NotLowered(_)
deps_NotLowered(dependencies) ==
    IF dependencies = <<>> THEN <<>>
    ELSE (IF Head(dependencies).target = None THEN <<>>
          ELSE <<Ref(Head(dependencies).target[1].name)>>)
            \o deps_NotLowered(Tail(dependencies))

\* dependencies.iter().filter_map(...): one reference per dependency that has
\* a target
RECURSIVE deps(_)
deps(dependencies) ==
    IF dependencies = <<>> THEN <<>>
    ELSE (IF Head(dependencies).target = None THEN <<>>
          ELSE <<Ref(to_lowercase(Head(dependencies).target[1].name))>>)
            \o deps(Tail(dependencies))

Glob(pattern) == [kind |-> "glob", paths |-> <<pattern>>]
Srcs(sources, fallback) ==
    IF sources # <<>> THEN [kind |-> "list", paths |-> sources]
    ELSE Glob(fallback)

GlobAppSources ==
    <<<<"Fixture">>, <<"Sources">>, <<"**">>, <<"*", "swift">>>>
GlobTestSources ==
    <<<<"Fixture">>, <<"Tests">>, <<"**">>, <<"*", "swift">>>>
GlobLibSources ==
    <<<<"Sources">>, <<"**">>, <<"*", "swift">>>>

InfoPlistName(target) == target.name \o <<"-Info.plist">>

\* the swift_library block of a target
SwiftLibrary(target, project_path, name, fallback) ==
    [Block("swift_library", name) EXCEPT
        !.srcs = Some(Srcs(source_files(AllFiles(target.buildable_folders),
                                        project_path), fallback)),
        !.module_name = Some(target.name),
        !.testonly = (target.product = "unit_tests"),
        !.deps = deps(target.dependencies),
        !.visibility = <<"//visibility:public">>]

\* let test_host = target.name.replace("Tests", "").to_lowercase()
test_host(target) == to_lowercase(replace(target.name, Tests))

IosApplication(target) ==
    LET target_name_lower == to_lowercase(target.name)
    IN  [Block("ios_application", target_name_lower) EXCEPT
            !.bundle_id = Some(target.bundle_id),
            !.families = <<"iphone", "ipad">>,
            !.infoplists = <<InfoPlistName(target)>>,
            !.minimum_os_version = Some("15.0"),
            !.deps = <<Ref(target_name_lower \o LibSuffix)>>]

IosUnitTest(target) ==
    LET target_name_lower == to_lowercase(target.name)
    IN  [Block("ios_unit_test", target_name_lower) EXCEPT
            !.bundle_id = Some(target.bundle_id),
            !.minimum_os_version = Some("15.0"),
            !.test_host = Some(Ref(test_host(target))),
            !.deps = <<Ref(target_name_lower \o LibSuffix)>>]

\* match target.product.as_str(): the blocks one target appends
TargetBlocks(target, project_path) ==
    LET target_name_lower == to_lowercase(target.name)
    IN  CASE target.product = "app" ->
                <<SwiftLibrary(target, project_path,
                               target_name_lower \o LibSuffix, GlobAppSources),
                  IosApplication(target)>>
          [] target.product = "unit_tests" ->
                <<SwiftLibrary(target, project_path,
                               target_name_lower \o LibSuffix, GlobTestSources),
                  IosUnitTest(target)>>
          [] OTHER ->
                <<SwiftLibrary(target, project_path, target_name_lower,
                               GlobLibSources)>>

\* for target in project.targets.values(): the blocks of the targets
\* keys[from..], in that order
RECURSIVE BlocksFrom(_, _, _)
BlocksFrom(p, keys, from) ==
    IF from > Len(keys) THEN <<>>
    ELSE TargetBlocks(p.targets[keys[from]], p.path)
            \o BlocksFrom(p, keys, from + 1)

\* build_content when the loop is over
build_content(p) == Preamble \o BlocksFrom(p, p.order, 1)

\* the Info.plist of an application target
InfoPlist(target) ==
    [CFBundleExecutable |-> target.name,
     CFBundleIdentifier |-> target.bundle_id,
     CFBundleName |-> target.name]

File(dir, name) == [dir |-> dir, file |-> name]

\* fs::write: the file's content is replaced
Write(files, path, content) ==
    [f \in DOMAIN files \cup {path} |->
        IF f = path THEN content ELSE files[f]]

\* the Info.plist writes of the loop, for the targets keys[from..]
RECURSIVE WritePlists(_, _, _, _, _)
WritePlists(files, p, keys, from, project_dir) ==
    IF from > Len(keys) THEN files
    ELSE LET target == p.targets[keys[from]]
             next == IF target.product = "app"
                     THEN Write(files,
                                File(project_dir, InfoPlistName(target)),
                                InfoPlist(target))
                     ELSE files
         IN  WritePlists(next, p, keys, from + 1, project_dir)

\* generate_build_file(project, project_dir), no write failing
generate_build_file(files, p, project_dir) ==
    Write(WritePlists(files, p, p.order, 1, project_dir),
          File(project_dir, <<"BUILD">>), build_content(p))

-----------------------------------------------------------------------------
(* find_app_target *)

\* an element of graph.projects: a path string, or an object, which decodes
\* as a TuistProject (record is Some) or does not (record is None)
PathString == [kind |-> "string", record |-> None]
Malformed == [kind |-> "object", record |-> None]
ProjectObject(json) == [kind |-> "object", record |-> Some(json)]

\* TuistGraph; projects is any JSON value: an array of items or not an array
TuistGraph(items) ==
    [name |-> "Fixture", path |-> ProjPath, is_array |-> TRUE, items |-> items]
NoArrayGraph ==
    [name |-> "Fixture", path |-> ProjPath, is_array |-> FALSE, items |-> <<>>]

\* the iteration orders the HashMap decoded from one item may have
ItemOrders(item) ==
    IF item.record = None THEN {<<>>}
    ELSE Orders(DOMAIN item.record[1].targets)
\* one iteration order for every item of the array
RECURSIVE OrdersFrom(_, _)
OrdersFrom(g, from) ==
    IF from > Len(g.items) THEN {<<>>}
    ELSE {<<o>> \o rest : o \in ItemOrders(g.items[from]),
                          rest \in OrdersFrom(g, from + 1)}
GraphOrders(g) == OrdersFrom(g, 1)

Decoded(item, order) ==
    [name |-> item.record[1].name, path |-> item.record[1].path,
     targets |-> item.record[1].targets, order |-> order]

Ok(name, bundle_id) == [kind |-> "Ok", value |-> Some(<<name, bundle_id>>)]
Err(kind) == [kind |-> kind, value |-> None]

\* a variant of Matches that compares the key with the hint as they are
Matches_CaseSensitive(key, target, hint) ==
    /\ target.product = "app"
    /\ hint # None => key = hint[1]

\* if target.product == "app" { if let Some(hint) ... }
Matches(key, target, hint) ==
    /\ target.product = "app"
    /\ hint # None => to_lowercase(key) = to_lowercase(hint[1])

\* for (key, target) in &project.targets: the first match from keys[from..]
RECURSIVE ScanTargets(_, _, _)
ScanTargets(p, hint, from) ==
    IF from > Len(p.order) THEN None
    ELSE LET key == p.order[from]
         IN  IF Matches(key, p.targets[key], hint)
             THEN Some(Ok(to_lowercase(key), p.targets[key].bundle_id))
             ELSE ScanTargets(p, hint, from + 1)

\* a variant of ScanProjects that goes on after a match and returns the last
RECURSIVE ScanProjects_LastMatch(_, _, _, _)
ScanProjects_LastMatch(g, hint, orders, from) ==
    IF from > Len(g.items) THEN Err("NotFound")
    ELSE LET item == g.items[from]
             later == ScanProjects_LastMatch(g, hint, orders, from + 1)
         IN  IF item.kind # "object" THEN later
             ELSE IF item.record = None THEN Err("DecodeError")
             ELSE LET found == ScanTargets(Decoded(item, orders[from]), hint, 1)
                  IN  IF later.kind = "Ok" \/ found = None THEN later
                      ELSE found[1]

\* for item in projects_array, from items[from]
RECURSIVE ScanProjects(_, _, _, _)
ScanProjects(g, hint, orders, from) ==
    IF from > Len(g.items) THEN Err("NotFound")
    ELSE LET item == g.items[from]
         IN  IF item.kind # "object"
             THEN ScanProjects(g, hint, orders, from + 1)
             ELSE IF item.record = None THEN Err("DecodeError")
             ELSE LET found == ScanTargets(Decoded(item, orders[from]), hint, 1)
                  IN  IF found # None THEN found[1]
                      ELSE ScanProjects(g, hint, orders, from + 1)

\* find_app_target(graph, target_hint), the maps iterating in orders
find_app_target(g, hint, orders) ==
    IF g.is_array THEN ScanProjects(g, hint, orders, 1)
    ELSE Err("NotFound")

-----------------------------------------------------------------------------
(* Rule synthesis on its own: one project record of the graph is decoded   *)
(* and its rule file generated, twice.                                     *)

NoFiles == <<>>

\* main is not running
MainIdle ==
    /\ mode = "none" /\ pc = "idle" /\ graph2 = None
    /\ fs = NoFiles /\ steps = <<>> /\ exits = <<>> /\ outcome = "idle"
    /\ app = None
PipelineIdle == MainIdle /\ target_hint = None /\ graph = None

\* the projects generated: one target of the project, under the first key,
\* is any target; the others vary in product and in the case of their name
PeerNames == {App, app_lc}
PeerTargets ==
    {TuistTarget(n, p, "com.x.other", <<>>, <<>>) : n \in PeerNames, p \in Products}
SynthTargetMaps ==
    UNION {{[k \in Keys(n) |-> IF k = KeySeq[1] THEN first ELSE peers[k]] :
                first \in Targets, peers \in [Keys(n) \ {KeySeq[1]} -> PeerTargets]} :
            n \in 0..MaxTargets}
SynthProjects ==
    {ProjectJson("Fixture", ProjPath, t) : t \in SynthTargetMaps}

InitSynth ==
    /\ PipelineIdle
    /\ project \in {Some(json) : json \in SynthProjects}
    /\ runs = <<>>
    /\ results = <<>>

\* serde_json::from_value, then generate_build_file(&project, project_dir)
SynthesizeProject ==
    /\ project # None
    /\ Len(runs) < 2
    /\ \E p \in TuistProject(project[1]) :
          runs' = Append(runs, [order |-> p.order,
                                classified |-> Classified(p),
                                files |-> generate_build_file(NoFiles, p, ProjectDir)])
    /\ UNCHANGED <<mode, target_hint, pc, graph, graph2, fs, steps, exits,
                   outcome, app, project, results>>

NextSynth == SynthesizeProject

SpecSynth == InitSynth /\ [][NextSynth]_vars

-----------------------------------------------------------------------------
(* Target resolution on its own: find_app_target runs twice on one graph   *)
(* with one hint.                                                          *)

HintNames == {<<"A", "P", "P">>, AppTests, Lib}
Hints == {None} \cup {Some(h) : h \in HintNames}

\* find_app_target tells "app" from every other product
ResolveProducts == {"app", "framework"}
BundleOf(key) == IF key = App THEN "com.x.app" ELSE "com.x.other"

\* the targets maps of the graphs resolved: every target is named by its key
ResolveTargetMaps ==
    UNION {{[k \in Keys(n) |-> TuistTarget(k, products[k], BundleOf(k), <<>>, <<>>)] :
                products \in [Keys(n) -> ResolveProducts]} : n \in 0..MaxTargets}

ResolveItems ==
    {PathString, Malformed}
        \cup {ProjectObject(ProjectJson("Fixture", ProjPath, t)) :
                t \in ResolveTargetMaps}

ResolveGraphs ==
    {NoArrayGraph}
        \cup {TuistGraph(items) :
                items \in UNION {[1..n -> ResolveItems] : n \in 0..MaxItems}}

InitResolve ==
    /\ MainIdle
    /\ graph \in {Some(g) : g \in ResolveGraphs}
    /\ target_hint \in Hints
    /\ project = None
    /\ runs = <<>>
    /\ results = <<>>

\* find_app_target(&graph, target.as_deref())
ResolveAppTarget ==
    /\ pc = "idle"
    /\ graph # None
    /\ Len(results) < 2
    /\ \E orders \in GraphOrders(graph[1]) :
          results' = Append(results, find_app_target(graph[1], target_hint, orders))
    /\ UNCHANGED <<mode, target_hint, pc, graph, graph2, fs, steps, exits,
                   outcome, app, project, runs>>

NextResolve == ResolveAppTarget

SpecResolve == InitResolve /\ [][NextResolve]_vars

-----------------------------------------------------------------------------
(* Generation and resolution of one graph: the rule file of the graph's    *)
(* project record is generated and find_app_target runs on the same graph. *)

\* the targets of the record: the name field of a target is any name, its
\* map key or not
DeployTargetMaps ==
    UNION {{[k \in Keys(n) |-> TuistTarget(names[k], products[k], BundleOf(k), <<>>, <<>>)] :
                names \in [Keys(n) -> Names],
                products \in [Keys(n) -> ResolveProducts]} : n \in 1..MaxTargets}
DeployProjects ==
    {ProjectJson("Fixture", ProjPath, t) : t \in DeployTargetMaps}

InitDeploy ==
    /\ MainIdle
    /\ project \in {Some(json) : json \in DeployProjects}
    /\ graph = Some(TuistGraph(<<ProjectObject(project[1])>>))
    /\ target_hint \in Hints
    /\ runs = <<>>
    /\ results = <<>>

NextDeploy == SynthesizeProject \/ ResolveAppTarget

SpecDeploy == InitDeploy /\ [][NextDeploy]_vars

-----------------------------------------------------------------------------
(* main: build_project, then for Run the target resolution and the         *)
(* simulator                                                               *)

AppTarget ==
    TuistTarget(App, "app", "com.x.app", <<Folder(<<FileA, FileX>>)>>, <<>>)
TestsTarget ==
    TuistTarget(AppTests, "unit_tests", "com.x.other", <<>>,
                <<Dependency(Some(TargetReference(App)))>>)
LibTarget ==
    TuistTarget(Lib, "framework", "com.x.other", <<>>, <<Dependency(None)>>)

PipelineItems ==
    {PathString, Malformed,
     ProjectObject(ProjectJson("Fixture", ProjPath,
                               (App :> AppTarget) @@ (AppTests :> TestsTarget))),
     ProjectObject(ProjectJson("Mod", ModPath, (Lib :> LibTarget)))}

\* the graphs tuist graph may write that decode as a TuistGraph
PipelineGraphs ==
    {NoArrayGraph}
        \cup {TuistGraph(items) :
                items \in UNION {[1..n -> PipelineItems] : n \in 0..MaxItems}}

PipelineHints == {None, Some(<<"A", "P", "P">>), Some(Lib)}

Init ==
    /\ mode \in {"build", "run"}
    /\ target_hint \in (IF mode = "run" THEN PipelineHints ELSE {None})
    /\ pc = "FetchGraph"
    /\ graph = None
    /\ graph2 = None
    /\ fs = NoFiles
    /\ steps = <<>>
    /\ exits = <<>>
    /\ outcome = "running"
    /\ app = None
    /\ project = None
    /\ runs = <<>>
    /\ results = <<>>

Exit(process, success) == [process |-> process, success |-> success]

\* a variant of Bails that ignores the exit status
Bails_Never(success) == FALSE

\* if !status.success() { anyhow::bail!(...) }
Bails(success) == ~success

\* the error is returned from main with ?
Fail(error) == pc' = "done" /\ outcome' = error

\* run_tuist_graph in build_project, and the cache directory
FetchGraph ==
    /\ pc = "FetchGraph"
    /\ steps' = Append(steps, "FetchGraph")
    /\ \/ /\ Fail("IOError")
          /\ UNCHANGED <<graph, exits>>
       \/ \E success \in BOOLEAN :
            /\ exits' = Append(exits, Exit("tuist graph", success))
            /\ IF Bails(success)
               THEN Fail("ExternalToolError") /\ UNCHANGED graph
               ELSE \/ Fail("IOError") /\ UNCHANGED graph
                    \/ Fail("DecodeError") /\ UNCHANGED graph
                    \/ \E g \in PipelineGraphs :
                          /\ graph' = Some(g)
                          /\ pc' = "EmitWorkspaceFiles"
                          /\ UNCHANGED outcome
    /\ UNCHANGED <<mode, target_hint, graph2, fs, app, project, runs, results>>

WorkspacePath == File(ProjectDir, <<"WORKSPACE">>)
BazelrcPath == File(ProjectDir, <<".bazelrc">>)
GraphCachePath == File(CacheDir, <<"graph.json">>)

\* generate_workspace_file and generate_bazelrc
EmitWorkspaceFiles ==
    /\ pc = "EmitWorkspaceFiles"
    /\ steps' = Append(steps, "EmitWorkspaceFiles")
    /\ \/ Fail("IOError") /\ UNCHANGED fs
       \/ /\ Fail("IOError")
          /\ fs' = Write(fs, WorkspacePath, "workspace_content")
       \/ /\ fs' = Write(Write(fs, WorkspacePath, "workspace_content"),
                         BazelrcPath, "bazelrc_content")
          /\ pc' = "SynthesizeAndWriteAllProjects"
          /\ UNCHANGED outcome
    /\ UNCHANGED <<mode, target_hint, graph, graph2, exits, app, project, runs,
                   results>>

\* for item in projects_array: the items from items[from]; the write of the
\* BUILD file of item fail_at fails (none when fail_at is 0)
RECURSIVE GenerateProjects(_, _, _, _, _)
GenerateProjects(files, g, orders, from, fail_at) ==
    IF from > Len(g.items) THEN [files |-> files, error |-> None]
    ELSE LET item == g.items[from]
         IN  IF item.kind # "object"
             THEN GenerateProjects(files, g, orders, from + 1, fail_at)
             ELSE IF item.record = None
             THEN [files |-> files, error |-> Some("DecodeError")]
             ELSE LET p == Decoded(item, orders[from])
                  IN  IF from = fail_at
                      THEN [files |-> WritePlists(files, p, p.order, 1, ProjectDir),
                            error |-> Some("IOError")]
                      ELSE GenerateProjects(
                               generate_build_file(files, p, ProjectDir),
                               g, orders, from + 1, fail_at)

\* the loop of generate_bazel_files over graph.projects
SynthesizeAndWriteAllProjects ==
    /\ pc = "SynthesizeAndWriteAllProjects"
    /\ steps' = Append(steps, "SynthesizeAndWriteAllProjects")
    /\ \E orders \in GraphOrders(graph[1]), fail_at \in 0..Len(graph[1].items) :
          LET done == IF graph[1].is_array
                      THEN GenerateProjects(fs, graph[1], orders, 1, fail_at)
                      ELSE [files |-> fs, error |-> None]
          IN  /\ fs' = done.files
              /\ IF done.error # None
                 THEN Fail(done.error[1])
                 ELSE pc' = "PersistGraphSnapshot" /\ UNCHANGED outcome
    /\ UNCHANGED <<mode, target_hint, graph, graph2, exits, app, project, runs,
                   results>>

\* Save graph metadata to cache
PersistGraphSnapshot ==
    /\ pc = "PersistGraphSnapshot"
    /\ steps' = Append(steps, "PersistGraphSnapshot")
    /\ \/ Fail("IOError") /\ UNCHANGED fs
       \/ /\ fs' = Write(fs, GraphCachePath, graph[1])
          /\ pc' = "InvokeExternalBuild"
          /\ UNCHANGED outcome
    /\ UNCHANGED <<mode, target_hint, graph, graph2, exits, app, project, runs,
                   results>>

\* run_bazel_build, and the return of build_project to main
InvokeExternalBuild ==
    /\ pc = "InvokeExternalBuild"
    /\ steps' = Append(steps, "InvokeExternalBuild")
    /\ \E success \in BOOLEAN :
          /\ exits' = Append(exits, Exit("bazel build", success))
          /\ IF Bails(success) THEN Fail("ExternalToolError")
             ELSE IF mode = "run"
                  THEN pc' = "FetchGraphAgain" /\ UNCHANGED outcome
                  ELSE pc' = "done" /\ outcome' = "success"
    /\ UNCHANGED <<mode, target_hint, graph, graph2, fs, app, project, runs,
                   results>>

\* main, Run: let graph = run_tuist_graph(&project_dir)?
FetchGraphAgain ==
    /\ pc = "FetchGraphAgain"
    /\ steps' = Append(steps, "FetchGraph")
    /\ \/ /\ Fail("IOError")
          /\ UNCHANGED <<graph2, exits>>
       \/ \E success \in BOOLEAN :
            /\ exits' = Append(exits, Exit("tuist graph", success))
            /\ IF Bails(success)
               THEN Fail("ExternalToolError") /\ UNCHANGED graph2
               ELSE \/ Fail("IOError") /\ UNCHANGED graph2
                    \/ Fail("DecodeError") /\ UNCHANGED graph2
                    \/ \E g \in PipelineGraphs :
                          /\ graph2' = Some(g)
                          /\ pc' = "ResolveTarget"
                          /\ UNCHANGED outcome
    /\ UNCHANGED <<mode, target_hint, graph, fs, app, project, runs, results>>

\* main, Run: find_app_target(&graph, target.as_deref())?
ResolveTarget ==
    /\ pc = "ResolveTarget"
    /\ steps' = Append(steps, "ResolveTarget")
    /\ \E orders \in GraphOrders(graph2[1]) :
          LET found == find_app_target(graph2[1], target_hint, orders)
          IN  IF found.kind = "Ok"
              THEN /\ app' = found.value
                   /\ pc' = "SimulatorBuild"
                   /\ UNCHANGED outcome
              ELSE Fail(found.kind) /\ UNCHANGED app
    /\ UNCHANGED <<mode, target_hint, graph, graph2, fs, exits, project, runs,
                   results>>

\* run_in_simulator: bazel build :target
SimulatorBuild ==
    /\ pc = "SimulatorBuild"
    /\ steps' = Append(steps, "InvokeSimulatorDeploy")
    /\ \E success \in BOOLEAN :
          /\ exits' = Append(exits, Exit("bazel build target", success))
          /\ IF Bails(success) THEN Fail("ExternalToolError")
             ELSE pc' = "SimulatorBoot" /\ UNCHANGED outcome
    /\ UNCHANGED <<mode, target_hint, graph, graph2, fs, app, project, runs,
                   results>>

\* run_in_simulator: let _ = xcrun simctl boot, the sleep, and the test that
\* the IPA exists
SimulatorBoot ==
    /\ pc = "SimulatorBoot"
    /\ \E success \in BOOLEAN :
          exits' = Append(exits, Exit("simctl boot", success))
    /\ \E ipa_exists \in BOOLEAN :
          IF ipa_exists THEN pc' = "SimulatorInstall" /\ UNCHANGED outcome
          ELSE Fail("IpaNotFound")
    /\ UNCHANGED <<mode, target_hint, graph, graph2, fs, steps, app, project,
                   runs, results>>

\* run_in_simulator: xcrun simctl install booted
SimulatorInstall ==
    /\ pc = "SimulatorInstall"
    /\ \E success \in BOOLEAN :
          /\ exits' = Append(exits, Exit("simctl install", success))
          /\ IF Bails(success) THEN Fail("ExternalToolError")
             ELSE pc' = "SimulatorLaunch" /\ UNCHANGED outcome
    /\ UNCHANGED <<mode, target_hint, graph, graph2, fs, steps, app, project,
                   runs, results>>

\* run_in_simulator: xcrun simctl launch booted, and the return from main
SimulatorLaunch ==
    /\ pc = "SimulatorLaunch"
    /\ \E success \in BOOLEAN :
          /\ exits' = Append(exits, Exit("simctl launch", success))
          /\ IF Bails(success) THEN Fail("ExternalToolError")
             ELSE pc' = "done" /\ outcome' = "success"
    /\ UNCHANGED <<mode, target_hint, graph, graph2, fs, steps, app, project,
                   runs, results>>

Next ==
    \/ FetchGraph
    \/ EmitWorkspaceFiles
    \/ SynthesizeAndWriteAllProjects
    \/ PersistGraphSnapshot
    \/ InvokeExternalBuild
    \/ FetchGraphAgain
    \/ ResolveTarget
    \/ SimulatorBuild
    \/ SimulatorBoot
    \/ SimulatorInstall
    \/ SimulatorLaunch

Spec == Init /\ [][Next]_vars

-----------------------------------------------------------------------------
(* Reading a generated rule file *)

BuildPath == File(ProjectDir, <<"BUILD">>)
RuleFile(run) == run.files[BuildPath]
TargetsOf(json) == json.targets

\* the blocks the i-th target of the run's iteration order contributed: two
\* for an application or a test bundle, one for a library
NBlocks(target) == IF target.product \in {"app", "unit_tests"} THEN 2 ELSE 1
RECURSIVE Offset(_, _, _)
Offset(targets, order, i) ==
    IF i = 1 THEN Len(Preamble)
    ELSE Offset(targets, order, i - 1) + NBlocks(targets[order[i - 1]])
BlocksFor(run, targets, i) ==
    LET from == Offset(targets, run.order, i)
    IN  SubSeq(RuleFile(run), from + 1, from + NBlocks(targets[run.order[i]]))
LibraryBlock(run, targets, i) == BlocksFor(run, targets, i)[1]
MainBlock(run, targets, i) ==
    BlocksFor(run, targets, i)[NBlocks(targets[run.order[i]])]

CountBlocks(rule_file, rule, name) ==
    Cardinality({i \in DOMAIN rule_file :
                    rule_file[i].rule = rule /\ rule_file[i].name = name})

\* the name with the suffix removed when it ends with it, unchanged otherwise
StripSuffix(s, suffix) ==
    IF Len(s) >= Len(suffix)
       /\ SubSeq(s, Len(s) - Len(suffix) + 1, Len(s)) = suffix
    THEN SubSeq(s, 1, Len(s) - Len(suffix))
    ELSE s

\* the names of the target references of a dependency list, in order
RECURSIVE ReferencedNames(_)
ReferencedNames(dependencies) ==
    IF dependencies = <<>> THEN <<>>
    ELSE (IF Head(dependencies).target = None THEN <<>>
          ELSE <<Head(dependencies).target[1].name>>)
            \o ReferencedNames(Tail(dependencies))

-----------------------------------------------------------------------------
(* Claims about rule synthesis, under SpecSynth *)

\* C5: for every application target the rule file holds exactly one
\* swift_library block named <lowercase(name)>_lib and exactly one
\* ios_application block named <lowercase(name)>, which carries the target's
\* bundle id and whose deps is the reference to the library block.
C5_OneLibraryOneApplication ==
    \A r \in 1..Len(runs) : \A k \in DOMAIN TargetsOf(project[1]) :
        LET t == TargetsOf(project[1])[k]
            n == to_lowercase(t.name)
            rf == RuleFile(runs[r])
        IN  t.product = "app" =>
              /\ CountBlocks(rf, "swift_library", n \o LibSuffix) = 1
              /\ CountBlocks(rf, "ios_application", n) = 1
              /\ \A i \in DOMAIN rf :
                    rf[i].rule = "ios_application" /\ rf[i].name = n =>
                        /\ rf[i].bundle_id = Some(t.bundle_id)
                        /\ rf[i].deps = <<Ref(n \o LibSuffix)>>

\* C8: two syntheses of the same project record give the same rule file,
\* target blocks in the same order.
C8_SynthesisDeterministic ==
    Len(runs) = 2 => RuleFile(runs[1]) = RuleFile(runs[2])

\* C9: the test_host of the ios_unit_test block of a unit_tests target is
\* the reference to the target's name with the suffix "Tests" stripped (the
\* suffix only) and then lower-cased.
C9_TestHostStripsSuffixOnly ==
    \A r \in 1..Len(runs) : \A i \in 1..Len(runs[r].order) :
        LET targets == TargetsOf(project[1])
            t == targets[runs[r].order[i]]
        IN  t.product = "unit_tests" =>
              /\ MainBlock(runs[r], targets, i).rule = "ios_unit_test"
              /\ MainBlock(runs[r], targets, i).test_host
                    = Some(Ref(to_lowercase(StripSuffix(t.name, Tests))))

\* C10: lower-casing is idempotent on every target and dependency name; the
\* deps of a target's library block holds one reference per dependency that
\* has a target reference, in order, and none for the others; and the
\* reference to a name that a target of the same project carries is the
\* reference to the name of the block emitted for that target.
C10_ReferencesResolve ==
    \A r \in 1..Len(runs) : \A i \in 1..Len(runs[r].order) :
        LET targets == TargetsOf(project[1])
            t == targets[runs[r].order[i]]
            names == ReferencedNames(t.dependencies)
            refs == LibraryBlock(runs[r], targets, i).deps
        IN  /\ to_lowercase(to_lowercase(t.name)) = to_lowercase(t.name)
            /\ Len(refs) = Len(names)
            /\ \A j \in 1..Len(names) :
                  /\ to_lowercase(to_lowercase(names[j])) = to_lowercase(names[j])
                  /\ \A i2 \in 1..Len(runs[r].order) :
                        targets[runs[r].order[i2]].name = names[j] =>
                            refs[j] = Ref(MainBlock(runs[r], targets, i2).name)

\* a rule file generated for a project in which a target depends by name on
\* another target of the project, an application, and is iterated first
C10_Witness ==
    /\ Len(runs) >= 1
    /\ LET targets == TargetsOf(project[1])
       IN  \E k1, k2 \in DOMAIN targets :
              /\ k1 # k2
              /\ runs[1].order = <<k1, k2>>
              /\ ReferencedNames(targets[k1].dependencies) = <<targets[k2].name>>
              /\ targets[k2].product = "app"

\* the entries the claim expects of a list of resolved files: one per file
\* that has one of the extensions and lies under the project path, equal to
\* its path relative to the project path
SourceExtensions == {"swift"}
ResourceExtensions == {"xcassets", "storyboard", "xib"}
HasExtensionIn(path, extensions) ==
    extension(path) # None /\ extension(path)[1] \in extensions
IsUnder(path, base) == strip_prefix(path, base) # None
ExpectedEntries(files, extensions, base) ==
    LET Kept(file) == HasExtensionIn(file.path, extensions) /\ IsUnder(file.path, base)
        kept == SelectSeq(files, Kept)
    IN  [n \in 1..Len(kept) |-> strip_prefix(kept[n].path, base)[1]]

\* C11: file classification.  For every target of a generated project the
\* rule file is written (no file makes the generation fail); the source
\* entries are exactly the relative paths of the source-extension files
\* under the project path, and they are the srcs of the target's library
\* block; the resource entries are exactly the relative paths of the files
\* under the project path with a resource extension; a file outside the
\* project path, or with another extension or none, adds no entry.
C11_FileClassification ==
    \A r \in 1..Len(runs) : \A i \in 1..Len(runs[r].order) :
        LET json == project[1]
            k == runs[r].order[i]
            files == AllFiles(json.targets[k].buildable_folders)
            entries == runs[r].classified[k]
        IN  /\ BuildPath \in DOMAIN runs[r].files
            /\ entries.source_files
                    = ExpectedEntries(files, SourceExtensions, json.path)
            /\ entries.resource_files
                    = ExpectedEntries(files, ResourceExtensions, json.path)
            /\ entries.source_files # <<>> =>
                    LibraryBlock(runs[r], json.targets, i).srcs
                        = Some([kind |-> "list", paths |-> entries.source_files])

\* a project generated with a target whose files are a source file under the
\* project path, source and resource files outside it, a resource file under
\* it and files with no extension: one source entry, one resource entry
C11_Witness ==
    /\ Len(runs) >= 1
    /\ \E k \in DOMAIN runs[1].classified :
          LET files == AllFiles(project[1].targets[k].buildable_folders)
          IN  /\ {files[j].path : j \in 1..Len(files)}
                    = {FileA, FileB, FileX, FileR, FileS, FileH}
              /\ runs[1].classified[k].source_files
                    = <<<<<<"Sources">>, <<"A", "swift">>>>>>
              /\ runs[1].classified[k].resource_files
                    = <<<<<<"Assets", "xcassets">>>>>>

-----------------------------------------------------------------------------
(* Claims about target resolution, under SpecResolve *)

\* the items of the graph that are project records
RecordItems(g) == {i \in 1..Len(g.items) : g.items[i].record # None}
\* the object items that do not decode
MalformedItems(g) ==
    {i \in 1..Len(g.items) : g.items[i].kind = "object" /\ g.items[i].record = None}

\* an application target, whose key equals the hint up to case when a hint
\* is given
Wanted(key, target, hint) ==
    /\ target.product = "app"
    /\ hint = None \/ to_lowercase(key) = to_lowercase(hint[1])

\* the (item, key) pairs of the wanted targets of the graph
WantedIn(g, hint) ==
    {ik \in UNION {{<<i, k>> : k \in DOMAIN g.items[i].record[1].targets} :
                        i \in RecordItems(g)} :
        Wanted(ik[2], g.items[ik[1]].record[1].targets[ik[2]], hint)}

PairOf(g, ik) ==
    Some(<<to_lowercase(ik[2]), g.items[ik[1]].record[1].targets[ik[2]].bundle_id>>)

\* a returned pair is that of a wanted target of the graph
C6_ReturnsWanted ==
    \A r \in 1..Len(results) :
        results[r].kind = "Ok" =>
            \E ik \in WantedIn(graph[1], target_hint) :
                results[r].value = PairOf(graph[1], ik)

TwoApplications(g) == Cardinality(WantedIn(g, None)) = 2
\* the first project record that holds an application target
FirstAppItem(g) ==
    CHOOSE i \in {ik[1] : ik \in WantedIn(g, None)} :
        \A ik \in WantedIn(g, None) : i <= ik[1]

\* C7 as claimed: with no hint, two resolutions of one graph that has two
\* application targets return the same target.
C7_ResolutionDeterministic ==
    (Len(results) = 2 /\ target_hint = None /\ TwoApplications(graph[1]))
        => results[1] = results[2]

\* C7 as amended: with no hint and two application targets, a resolution
\* that succeeds returns an application target of the first project record
\* that holds one; two resolutions return the same target when the two
\* application targets are in different project records, and may differ when
\* both are in one record, whose map is iterated in an unspecified order.
C7_FirstRecordWithApplication ==
    (target_hint = None /\ TwoApplications(graph[1])) =>
        /\ \A r \in 1..Len(results) :
              results[r].kind = "Ok" =>
                  \E ik \in WantedIn(graph[1], None) :
                      /\ ik[1] = FirstAppItem(graph[1])
                      /\ results[r].value = PairOf(graph[1], ik)
        /\ (Len(results) = 2
              /\ \A ik1, ik2 \in WantedIn(graph[1], None) :
                    ik1 # ik2 => ik1[1] # ik2[1])
                => results[1] = results[2]

\* two successful resolutions without a hint of a graph whose two
\* application targets are in two project records
C7_Witness ==
    /\ Len(results) = 2
    /\ target_hint = None
    /\ TwoApplications(graph[1])
    /\ \A ik1, ik2 \in WantedIn(graph[1], None) : ik1 # ik2 => ik1[1] # ik2[1]
    /\ results[1].kind = "Ok"
    /\ results[2].kind = "Ok"

-----------------------------------------------------------------------------
(* Claims about generation and resolution of one graph, under SpecDeploy *)

\* C12: whenever find_app_target succeeds on a graph, the name it returns
\* is the name of an ios_application block of the rule file that
\* generate_build_file writes for the project record of that graph,
\* whatever the map keys and the name fields of the targets are.
C12_ResolvedNameIsEmittedApplication ==
    \A i \in 1..Len(results) : \A r \in 1..Len(runs) :
        results[i].kind = "Ok" =>
            CountBlocks(RuleFile(runs[r]), "ios_application",
                        results[i].value[1][1]) >= 1

-----------------------------------------------------------------------------
(* Claims about the pipeline, under Spec *)

IsPrefix(s, t) == Len(s) <= Len(t) /\ SubSeq(t, 1, Len(s)) = s

BuildSteps ==
    <<"FetchGraph", "EmitWorkspaceFiles", "SynthesizeAndWriteAllProjects",
      "PersistGraphSnapshot", "InvokeExternalBuild">>
RunSteps == BuildSteps \o <<"ResolveTarget", "InvokeSimulatorDeploy">>

\* C1: the steps started are, in order and each at most once, FetchGraph,
\* EmitWorkspaceFiles, SynthesizeAndWriteAllProjects, PersistGraphSnapshot,
\* InvokeExternalBuild, ResolveTarget, InvokeSimulatorDeploy; a build stops
\* after InvokeExternalBuild, and an invocation that succeeds has run them all.
C1_StepsInOrderOnce ==
    /\ IsPrefix(steps, IF mode = "run" THEN RunSteps ELSE BuildSteps)
    /\ outcome = "success" =>
          steps = (IF mode = "run" THEN RunSteps ELSE BuildSteps)

Failed == outcome \notin {"idle", "running", "success"}

\* C2 as claimed: a subprocess that reported a nonzero exit status is the
\* last one run, and the invocation has failed.
C2_NonzeroExitHalts ==
    \A i \in 1..Len(exits) :
        ~exits[i].success => i = Len(exits) /\ Failed

\* C2 as amended: a nonzero exit status of the graph fetch, of an external
\* build, of the simulator install or of the simulator launch halts the
\* pipeline there: no later subprocess runs, no later step starts and the
\* invocation fails.  The exit status of the simulator boot is ignored.
C2_NonzeroExitHaltsButBoot ==
    \A i \in 1..Len(exits) :
        (~exits[i].success /\ exits[i].process # "simctl boot") =>
            /\ i = Len(exits)
            /\ outcome = "ExternalToolError"
            /\ pc = "done"

\* the simulator install reported a nonzero exit status after a simulator
\* boot that reported one too
C2_Witness ==
    /\ Len(exits) >= 2
    /\ exits[Len(exits)] = Exit("simctl install", FALSE)
    /\ exits[Len(exits) - 1] = Exit("simctl boot", FALSE)
    /\ Failed

\* C3: an invocation that ends with a DecodeError has written no file.
C3_DecodeErrorWritesNothing ==
    outcome = "DecodeError" => DOMAIN fs = {}

\* the generation of the rule files is over and no error occurred
Generated ==
    /\ graph # None
    /\ Len(steps) > 3 \/ pc = "PersistGraphSnapshot"
DistinctPaths(g) ==
    \A i, j \in RecordItems(g) :
        i # j => g.items[i].record[1].path # g.items[j].record[1].path
RuleFiles == {f \in DOMAIN fs : f.file = <<"BUILD">>}
Contains(rule_file, blocks) ==
    \A b \in 1..Len(blocks) : \E i \in DOMAIN rule_file : rule_file[i] = blocks[b]

\* C4: after a successful generation over N project records with pairwise
\* distinct paths there are N rule files, one in the directory of each
\* project, which holds the blocks of the targets of that project.
C4_OneRuleFilePerProject ==
    (Generated /\ DistinctPaths(graph[1])) =>
        /\ Cardinality(RuleFiles) = Cardinality(RecordItems(graph[1]))
        /\ \A i \in RecordItems(graph[1]) :
              LET json == graph[1].items[i].record[1]
              IN  /\ File(json.path, <<"BUILD">>) \in RuleFiles
                  /\ \A k \in DOMAIN json.targets :
                        Contains(fs[File(json.path, <<"BUILD">>)],
                                 TargetBlocks(json.targets[k], json.path))

====
